---- MODULE Spec2Model ----
(***************************************************************************)
(* Configuration synchronisation and cache invalidation of the signage     *)
(* client (src/client/testclient.py): fetch, content hash, media           *)
(* mirroring, cache persistence and fallback to the cached document.       *)
(*                                                                         *)
(* A JSON value is a tagged record: Str (a string, kept as the sequence of *)
(* its "/"-separated segments so that the last path segment can be taken), *)
(* Arr (a list), Obj (a dict, kept as the sequence of its <<key, value>>   *)
(* pairs in insertion order) and None.  The SHA-256 digest is idealised as *)
(* an injective function of the serialisation, so a digest is represented  *)
(* by the sort_keys serialisation it is computed from.                     *)
(***************************************************************************)
EXTENDS Integers, Sequences, FiniteSets, TLC

VARIABLES
    pc,          \* position of the process in main()
    config,      \* the local variable `config` of main()
    fetched,     \* history: what get_config_from_server returned this run
    branch,      \* history: branch of main() taken by this run
    todo,        \* media_map items the download loop has still to visit
    downloads,   \* history: requests made by download_media in this run
    writes,      \* history: cache files opened for writing in this run
    cacheFile,   \* CONFIG_CACHE_FILE on disk
    hashFile,    \* CONFIG_HASH_FILE on disk
    media,       \* files of MEDIA_DIR: set of <<filename, url it came from>>
    startCache,  \* history: CONFIG_CACHE_FILE when this run started
    startHash,   \* history: CONFIG_HASH_FILE when this run started
    startMedia,  \* history: MEDIA_DIR when this run started
    lastSynced,  \* history: document whose sync wrote the current cache entry
    prevFallback,\* history: document the preceding run returned, when that
                 \* run was an unavailable fetch served from the cache
    response,    \* history: outcome of this run's config request
    configRequests, \* history: config requests issued by this run
    syncFailed,  \* history: URLs whose download failed in the sync that
                 \* wrote the current cache entry
    retryOf,     \* history: those URLs, when this run fetched the document
                 \* of that sync again
    docA,        \* hashing: a document
    docB,        \* hashing: the same document with its keys in another order
    hashA,       \* hashing: hash_config(docA), once computed
    hashB        \* hashing: hash_config(docB), once computed

clientVars == <<pc, config, fetched, branch, todo, downloads, writes, cacheFile,
                hashFile, media, startCache, startHash, startMedia, lastSynced,
                prevFallback, response, configRequests, syncFailed, retryOf>>

hashVars == <<docA, docB, hashA, hashB>>

vars == <<clientVars, hashVars>>

(* ------------------------------ bounds --------------------------------- *)

MaxSlides == 1

(* ---------------------------- JSON values ------------------------------ *)

None == [t |-> "none"]

Str(s) == [t |-> "str", v |-> s]

Arr(items) == [t |-> "arr", items |-> items]

Obj(kv) == [t |-> "obj", kv |-> kv]

\* Python truthiness of a JSON value (`if config:`, `if logo_url:`).
Truthy(x) ==
    CASE x.t = "none" -> FALSE
      [] x.t = "str"  -> x.v # <<>>
      [] x.t = "arr"  -> x.items # <<>>
      [] x.t = "obj"  -> x.kv # <<>>

HasKey(o, k) == \E i \in 1..Len(o.kv) : o.kv[i][1] = k

KeyIndex(o, k) == CHOOSE i \in 1..Len(o.kv) : o.kv[i][1] = k

\* dict.get(k, default)
GetOr(o, k, default) == IF HasKey(o, k) THEN o.kv[KeyIndex(o, k)][2] ELSE default

\* dict.get(k)
Get(o, k) == GetOr(o, k, None)

\* d[k] = v : an existing key keeps its position, a new key goes last.
SetItem(o, k, v) ==
    IF HasKey(o, k)
    THEN Obj([o.kv EXCEPT ![KeyIndex(o, k)] = <<k, v>>])
    ELSE Obj(Append(o.kv, <<k, v>>))

(* ------------------------------ hashing -------------------------------- *)

\* Lexicographic order of the keys that occur in documents.
KeyOrder == <<"background_image", "display_name", "left", "logo", "right",
              "slides", "source", "type">>

KeyRank(k) == CHOOSE i \in 1..Len(KeyOrder) : KeyOrder[i] = k

RECURSIVE InsertSorted(_, _)
InsertSorted(sorted, p) ==
    IF sorted = <<>> THEN <<p>>
    ELSE IF KeyRank(p[1]) < KeyRank(Head(sorted)[1])
         THEN <<p>> \o sorted
         ELSE <<Head(sorted)>> \o InsertSorted(Tail(sorted), p)

\* A serialisation that keeps each dict's insertion order (no sort_keys).
SortKeysKeepOrder(kv) == kv

RECURSIVE SortKeys(_)
SortKeys(kv) ==
    IF kv = <<>> THEN <<>>
    ELSE InsertSorted(SortKeys(Tail(kv)), Head(kv))

\* json.dumps(x, sort_keys=True): the serialisation with every dict's keys
\* in sorted order, at every nesting level.
RECURSIVE Dumps(_)
Dumps(x) ==
    CASE x.t = "obj" ->
           Obj(SortKeys([i \in 1..Len(x.kv) |-> <<x.kv[i][1], Dumps(x.kv[i][2])>>]))
      [] x.t = "arr" -> Arr([i \in 1..Len(x.items) |-> Dumps(x.items[i])])
      [] OTHER -> x

hash_config(c) == Dumps(c)

(* ------------------------------- files --------------------------------- *)

Absent == [k |-> "absent"]

\* A file opened with "w" and not yet completely written and closed.
Truncated == [k |-> "truncated"]

DocFile(d) == [k |-> "doc", doc |-> d]

HashText(h) == [k |-> "hash", h |-> h]

MEDIA_DIR == <<"cache", "media">>

\* Path(url).name : the last path segment.
PathName(s) == IF s = <<>> THEN "" ELSE s[Len(s)]

\* str(MEDIA_DIR / name)
LocalPath(name) == Str(Append(MEDIA_DIR, name))

\* (MEDIA_DIR / fname).exists()
Exists(m, fname) == \E f \in m : f[1] = fname

\* load_config_hash(): None without the file, else its stripped text; the
\* text of a truncated file is the empty string, which equals no digest.
load_config_hash == hashFile

(* ---------------------------- documents -------------------------------- *)

UrlA == <<"h1", "static", "a.png">>
UrlB == <<"h1", "static", "b.mp4">>
UrlC == <<"h2", "img", "a.png">>      \* same last segment as UrlA

Side(type, source) == Obj(<< <<"type", Str(<<type>>)>>, <<"source", Str(source)>> >>)

SlideChoices ==
    { Obj(<< <<"left", Side("image", UrlA)>>, <<"right", Side("text", <<"hello">>)>> >>),
      Obj(<< <<"right", Side("video", UrlC)>> >>) }

Opt(k, vals) == {<<>>} \cup { << <<k, v>> >> : v \in vals }

SeqsUpTo(S, n) == UNION { [1..m -> S] : m \in 0..n }

\* The documents the server can answer with: a non-empty object whose media
\* fields hold absolute URLs (src/server/server_yaml.py, get_config).
Docs ==
    { Obj(<< <<"display_name", Str(<<"lobby">>)>> >> \o l \o b \o s) :
        l \in Opt("logo", {Str(UrlA)}),
        b \in Opt("background_image", {Str(UrlB)}),
        s \in Opt("slides", { Arr(ss) : ss \in SeqsUpTo(SlideChoices, MaxSlides) }) }

(* ------------------------- ensure_media_files -------------------------- *)

\* A media_map kept as a list: a URL referenced twice is recorded twice.
MapPutNoDedup(m, url, fname) == Append(m, <<url, fname>>)

\* media_map[url] = fname : a dict keyed by URL, in insertion order.
MapPut(m, url, fname) ==
    IF \E i \in 1..Len(m) : m[i][1] = url
    THEN [i \in 1..Len(m) |-> IF m[i][1] = url THEN <<url, fname>> ELSE m[i]]
    ELSE Append(m, <<url, fname>>)

\* `logo` and `background_image`: a truthy value is recorded in media_map and
\* replaced in place by its path under MEDIA_DIR.  st = [config, media_map].
RewriteField(st, key) ==
    LET url == Get(st.config, key) IN
    IF Truthy(url)
    THEN [config    |-> SetItem(st.config, key, LocalPath(PathName(url.v))),
          media_map |-> MapPut(st.media_map, url.v, PathName(url.v))]
    ELSE st

\* A rewrite that knows images only and leaves video sources remote.
RewriteSideImageOnly(st, side) ==
    LET conf    == GetOr(st.slide, side, Obj(<<>>))
        src_url == Get(conf, "source")
    IN  IF /\ Get(conf, "type") = Str(<<"image">>)
           /\ Truthy(src_url)
        THEN [slide     |-> SetItem(st.slide, side,
                               SetItem(conf, "source", LocalPath(PathName(src_url.v)))),
              media_map |-> MapPut(st.media_map, src_url.v, PathName(src_url.v))]
        ELSE st

\* One side of one slide.  st = [slide, media_map].
RewriteSide(st, side) ==
    LET conf    == GetOr(st.slide, side, Obj(<<>>))
        src_url == Get(conf, "source")
    IN  IF /\ Get(conf, "type") \in {Str(<<"image">>), Str(<<"video">>)}
           /\ Truthy(src_url)
        THEN [slide     |-> SetItem(st.slide, side,
                               SetItem(conf, "source", LocalPath(PathName(src_url.v)))),
              media_map |-> MapPut(st.media_map, src_url.v, PathName(src_url.v))]
        ELSE st

RewriteSlide(slide, m) ==
    RewriteSide(RewriteSide([slide |-> slide, media_map |-> m], "left"), "right")

\* The loop over config.get("slides", []), from slide i on.
RECURSIVE RewriteSlides(_, _, _)
RewriteSlides(items, i, m) ==
    IF i > Len(items) THEN [items |-> items, media_map |-> m]
    ELSE LET r == RewriteSlide(items[i], m)
         IN  RewriteSlides([items EXCEPT ![i] = r.slide], i + 1, r.media_map)

\* The collecting half of ensure_media_files: the document rewritten in
\* place and the media_map the download loop will walk.
CollectMedia(c) ==
    LET s1 == RewriteField([config |-> c, media_map |-> <<>>], "logo")
        s2 == RewriteField(s1, "background_image")
        r  == RewriteSlides(GetOr(s2.config, "slides", Arr(<<>>)).items, 1, s2.media_map)
    IN  [config    |-> IF HasKey(s2.config, "slides")
                       THEN SetItem(s2.config, "slides", Arr(r.items))
                       ELSE s2.config,
         media_map |-> r.media_map]

\* A download loop without the existence test.
NeedsDownloadAlways(m, fname) == TRUE

\* `if not local_path.exists()` of the download loop.
NeedsDownload(m, fname) == ~Exists(m, fname)

\* A download that opens the destination before the request: a failure
\* leaves an empty file behind.
download_mediaOpenFirst(m, url, fname, ok) ==
    {f \in m : f[1] # fname} \cup {<<fname, url>>}

\* download_media: on success the body is written to MEDIA_DIR / filename,
\* on any failure the exception is caught and nothing is written.
download_media(m, url, fname, ok) ==
    IF ok THEN {f \in m : f[1] # fname} \cup {<<fname, url>>} ELSE m

(* ------------------------------- state --------------------------------- *)

InRun == {"fetched", "download", "save_dump", "save_open_hash", "save_write_hash"}

Persisting == {"save_dump", "save_open_hash", "save_write_hash"}

Terminal == {"handoff", "fatal", "error"}

\* The client before its first run: no cache entry, no media.
ClientInit ==
    /\ pc = "idle"
    /\ config = None
    /\ fetched = None
    /\ branch = "none"
    /\ todo = <<>>
    /\ downloads = <<>>
    /\ writes = {}
    /\ cacheFile = Absent
    /\ hashFile = Absent
    /\ media = {}
    /\ startCache = Absent
    /\ startHash = Absent
    /\ startMedia = {}
    /\ lastSynced = None
    /\ prevFallback = None
    /\ response = "none"
    /\ configRequests = 0
    /\ syncFailed = {}
    /\ retryOf = {}

Init ==
    /\ ClientInit
    /\ docA = None
    /\ docB = None
    /\ hashA = None
    /\ hashB = None

\* What the config request can come back with: a 2xx answer carrying a
\* document, a transport error, a timeout, a non-2xx status, or a body that
\* is not JSON.
FailureKinds == {"transport", "timeout", "status", "malformed"}

Responses ==
    { [kind |-> "ok", body |-> d] : d \in Docs } \cup
    { [kind |-> k, body |-> None] : k \in FailureKinds }

\* An except clause for the requests exceptions only: the ValueError of
\* resp.json() on a malformed body escapes.
get_config_from_serverNarrowExcept(resp) ==
    [raised |-> resp.kind = "malformed",
     value  |-> IF resp.kind = "ok" THEN resp.body ELSE None]

\* get_config_from_server(): requests.get, raise_for_status and resp.json()
\* inside `try`, `except Exception` returning None.
get_config_from_server(resp) ==
    [raised |-> FALSE,
     value  |-> IF resp.kind = "ok" THEN resp.body ELSE None]

\* config = get_config_from_server(): one request, then a document or None.
Fetch ==
    /\ pc = "idle"
    /\ \E resp \in Responses :
          LET r == get_config_from_server(resp) IN
          /\ response' = resp.kind
          /\ fetched' = r.value
          /\ config' = r.value
          /\ pc' = IF r.raised THEN "error" ELSE "fetched"
    /\ configRequests' = configRequests + 1
    /\ startCache' = cacheFile
    /\ startHash' = hashFile
    /\ startMedia' = media
    /\ UNCHANGED <<prevFallback, branch, todo, downloads, writes, cacheFile, hashFile, media,
                   lastSynced>>
    /\ UNCHANGED <<syncFailed, retryOf>>
    /\ UNCHANGED hashVars

\* `if config:` and `new_hash != old_hash`: the document is rewritten by the
\* collecting half of ensure_media_files.
ChangedBranch ==
    /\ pc = "fetched"
    /\ Truthy(config)
    /\ HashText(hash_config(config)) # load_config_hash
    /\ LET r == CollectMedia(config) IN
          /\ config' = r.config
          /\ todo' = r.media_map
    /\ branch' = "changed"
    /\ pc' = "download"
    /\ prevFallback' = None
    /\ UNCHANGED <<fetched, downloads, writes, cacheFile, hashFile, media,
                   startCache, startHash, startMedia, lastSynced>>
    /\ UNCHANGED <<response, configRequests>>
    /\ retryOf' = IF lastSynced = fetched THEN syncFailed ELSE {}
    /\ UNCHANGED syncFailed
    /\ UNCHANGED hashVars

\* One iteration of `for url, fname in media_map.items()`.
DownloadStep ==
    /\ pc = "download"
    /\ todo # <<>>
    /\ LET url == Head(todo)[1]
           fname == Head(todo)[2]
       IN  IF NeedsDownload(media, fname)
           THEN \E ok \in BOOLEAN :
                   /\ media' = download_media(media, url, fname, ok)
                   /\ downloads' = Append(downloads,
                                      [url |-> url, fname |-> fname, ok |-> ok])
           ELSE UNCHANGED <<media, downloads>>
    /\ todo' = Tail(todo)
    /\ UNCHANGED <<pc, config, fetched, branch, writes, cacheFile, hashFile,
                   startCache, startHash, startMedia, lastSynced, prevFallback>>
    /\ UNCHANGED <<response, configRequests>>
    /\ UNCHANGED <<syncFailed, retryOf>>
    /\ UNCHANGED hashVars

\* save_config_cache, open(CONFIG_CACHE_FILE, "w"): the file is truncated.
SaveOpenConfig ==
    /\ pc = "download"
    /\ todo = <<>>
    /\ cacheFile' = Truncated
    /\ writes' = writes \cup {"config"}
    /\ lastSynced' = None
    /\ pc' = "save_dump"
    /\ UNCHANGED <<prevFallback, config, fetched, branch, todo, downloads, hashFile, media,
                   startCache, startHash, startMedia>>
    /\ UNCHANGED <<response, configRequests>>
    /\ syncFailed' = {}
    /\ UNCHANGED retryOf
    /\ UNCHANGED hashVars

\* json.dump(config, f) and the close of the with block.
SaveDumpConfig ==
    /\ pc = "save_dump"
    /\ cacheFile' = DocFile(config)
    /\ pc' = "save_open_hash"
    /\ UNCHANGED <<prevFallback, config, fetched, branch, todo, downloads, writes, hashFile,
                   media, startCache, startHash, startMedia, lastSynced>>
    /\ UNCHANGED <<response, configRequests>>
    /\ UNCHANGED <<syncFailed, retryOf>>
    /\ UNCHANGED hashVars

\* open(CONFIG_HASH_FILE, "w"): the file is truncated.
SaveOpenHash ==
    /\ pc = "save_open_hash"
    /\ hashFile' = Truncated
    /\ writes' = writes \cup {"hash"}
    /\ pc' = "save_write_hash"
    /\ UNCHANGED <<prevFallback, config, fetched, branch, todo, downloads, cacheFile, media,
                   startCache, startHash, startMedia, lastSynced>>
    /\ UNCHANGED <<response, configRequests>>
    /\ UNCHANGED <<syncFailed, retryOf>>
    /\ UNCHANGED hashVars

\* The digest of the document as it was fetched, before the rewrite.
SavedHashOfFetched(c, f) == hash_config(f)

\* The digest written is that of `config` as it is now, after the rewrite.
SavedHash(c, f) == hash_config(c)

\* f.write(hash_config(config)), the close, and the return to main().
SaveWriteHash ==
    /\ pc = "save_write_hash"
    /\ hashFile' = HashText(SavedHash(config, fetched))
    /\ lastSynced' = fetched
    /\ pc' = "handoff"
    /\ UNCHANGED <<prevFallback, config, fetched, branch, todo, downloads, writes, cacheFile,
                   media, startCache, startHash, startMedia>>
    /\ UNCHANGED <<response, configRequests>>
    /\ syncFailed' = { downloads[i].url : i \in { n \in 1..Len(downloads) : ~downloads[n].ok } }
    /\ UNCHANGED retryOf
    /\ UNCHANGED hashVars

\* load_config_cache() followed by the first use of its result in main():
\* json.load raises on a truncated file, and `config.get` raises on None.
LoadResult(file) ==
    CASE file.k = "doc"       -> [pc |-> "handoff", config |-> file.doc]
      [] file.k = "absent"    -> [pc |-> "error", config |-> None]
      [] file.k = "truncated" -> [pc |-> "error", config |-> None]

\* The else of `new_hash != old_hash`.
UnchangedBranch ==
    /\ pc = "fetched"
    /\ Truthy(config)
    /\ HashText(hash_config(config)) = load_config_hash
    /\ branch' = "unchanged"
    /\ config' = LoadResult(cacheFile).config
    /\ pc' = LoadResult(cacheFile).pc
    /\ UNCHANGED <<prevFallback, fetched, todo, downloads, writes, cacheFile, hashFile, media,
                   startCache, startHash, startMedia, lastSynced>>
    /\ UNCHANGED <<response, configRequests>>
    /\ retryOf' = IF lastSynced = fetched THEN syncFailed ELSE {}
    /\ UNCHANGED syncFailed
    /\ UNCHANGED hashVars

\* An unavailable branch that gives up without looking at the cache.
UnavailableResultNoFallback(file) == [pc |-> "fatal", config |-> None]

\* An unavailable branch without the `if not config` exit.
UnavailableResultNoExit(file) == LoadResult(file)

\* The else of `if config:`; `if not config: sys.exit(1)`.
UnavailableResult(file) ==
    IF file.k = "absent" THEN [pc |-> "fatal", config |-> None]
    ELSE LoadResult(file)

UnavailableBranch ==
    /\ pc = "fetched"
    /\ ~Truthy(config)
    /\ branch' = "unavailable"
    /\ config' = UnavailableResult(cacheFile).config
    /\ pc' = UnavailableResult(cacheFile).pc
    /\ UNCHANGED <<prevFallback, fetched, todo, downloads, writes, cacheFile, hashFile, media,
                   startCache, startHash, startMedia, lastSynced>>
    /\ UNCHANGED <<response, configRequests>>
    /\ UNCHANGED <<syncFailed, retryOf>>
    /\ UNCHANGED hashVars

\* The process is interrupted inside save_config_cache; the files stay as
\* they are and the next run starts from them.
Crash ==
    /\ pc \in Persisting
    /\ pc' = "idle"
    /\ config' = None
    /\ fetched' = None
    /\ branch' = "none"
    /\ todo' = <<>>
    /\ downloads' = <<>>
    /\ writes' = {}
    /\ startCache' = Absent
    /\ startHash' = Absent
    /\ startMedia' = {}
    /\ prevFallback' = None
    /\ UNCHANGED <<cacheFile, hashFile, media, lastSynced>>
    /\ response' = "none"
    /\ configRequests' = 0
    /\ retryOf' = {}
    /\ UNCHANGED syncFailed
    /\ UNCHANGED hashVars

\* The run has ended; the whole sequence is invoked again.
NextRun ==
    /\ pc \in Terminal
    /\ pc' = "idle"
    /\ config' = None
    /\ fetched' = None
    /\ branch' = "none"
    /\ todo' = <<>>
    /\ downloads' = <<>>
    /\ writes' = {}
    /\ startCache' = Absent
    /\ startHash' = Absent
    /\ startMedia' = {}
    /\ prevFallback' = IF pc = "handoff" /\ branch = "unavailable" THEN config ELSE None
    /\ UNCHANGED <<cacheFile, hashFile, media, lastSynced>>
    /\ response' = "none"
    /\ configRequests' = 0
    /\ retryOf' = {}
    /\ UNCHANGED syncFailed
    /\ UNCHANGED hashVars

Next ==
    \/ Fetch
    \/ ChangedBranch
    \/ DownloadStep
    \/ SaveOpenConfig
    \/ SaveDumpConfig
    \/ SaveOpenHash
    \/ SaveWriteHash
    \/ UnchangedBranch
    \/ UnavailableBranch
    \/ Crash
    \/ NextRun

Spec == Init /\ [][Next]_vars

TypeOK ==
    /\ pc \in InRun \cup Terminal \cup {"idle"}
    /\ cacheFile.k \in {"absent", "truncated", "doc"}
    /\ hashFile.k \in {"absent", "truncated", "hash"}

(* --------------------- hash_config on its own -------------------------- *)

\* The sequence q with its entries i and i + 1 exchanged.
SwapAt(q, i) == [q EXCEPT ![i] = q[i + 1], ![i + 1] = q[i]]

\* Two copies of one document; docB is then reordered key by key.
HashInit ==
    /\ ClientInit
    /\ docA \in Docs
    /\ docB = docA
    /\ hashA = None
    /\ hashB = None

\* Two neighbouring keys of the document change places.
SwapTopKeys ==
    /\ hashA = None
    /\ \E i \in 1..(Len(docB.kv) - 1) :
          docB' = Obj(SwapAt(docB.kv, i))
    /\ UNCHANGED <<docA, hashA, hashB, clientVars>>

\* Two neighbouring keys of one slide change places.
SwapSlideKeys ==
    /\ hashA = None
    /\ HasKey(docB, "slides")
    /\ \E j \in 1..Len(Get(docB, "slides").items) :
          LET slide == Get(docB, "slides").items[j] IN
          \E i \in 1..(Len(slide.kv) - 1) :
              docB' = SetItem(docB, "slides",
                         Arr([Get(docB, "slides").items EXCEPT
                                 ![j] = Obj(SwapAt(slide.kv, i))]))
    /\ UNCHANGED <<docA, hashA, hashB, clientVars>>

\* Two neighbouring keys of one side of one slide change places.
SwapSideKeys ==
    /\ hashA = None
    /\ HasKey(docB, "slides")
    /\ \E j \in 1..Len(Get(docB, "slides").items) :
          LET slide == Get(docB, "slides").items[j] IN
          \E side \in {"left", "right"} :
              /\ HasKey(slide, side)
              /\ \E i \in 1..(Len(Get(slide, side).kv) - 1) :
                    docB' = SetItem(docB, "slides",
                               Arr([Get(docB, "slides").items EXCEPT
                                       ![j] = SetItem(slide, side,
                                                 Obj(SwapAt(Get(slide, side).kv, i)))]))
    /\ UNCHANGED <<docA, hashA, hashB, clientVars>>

\* hash_config is applied to both documents.
HashBoth ==
    /\ hashA = None
    /\ hashA' = hash_config(docA)
    /\ hashB' = hash_config(docB)
    /\ UNCHANGED <<docA, docB, clientVars>>

HashNext ==
    \/ SwapTopKeys
    \/ SwapSlideKeys
    \/ SwapSideKeys
    \/ HashBoth

SpecHash == HashInit /\ [][HashNext]_vars

(* ------------------- vocabulary of the properties ---------------------- *)

\* The local media path of a URL: MEDIA_DIR joined with its last segment.
LocalOf(u) == Str(<<"cache", "media", u[Len(u)]>>)

IsMediaType(conf) ==
    \E i \in 1..Len(conf.kv) :
        /\ conf.kv[i][1] = "type"
        /\ conf.kv[i][2] \in {Str(<<"image">>), Str(<<"video">>)}

IsUrl(x) == x.t = "str" /\ x.v # <<>>

LocalizedSide(conf) ==
    IF IsMediaType(conf)
    THEN Obj([i \in 1..Len(conf.kv) |->
                IF conf.kv[i][1] = "source" /\ IsUrl(conf.kv[i][2])
                THEN <<"source", LocalOf(conf.kv[i][2].v)>>
                ELSE conf.kv[i]])
    ELSE conf

LocalizedSlide(slide) ==
    Obj([i \in 1..Len(slide.kv) |->
            IF slide.kv[i][1] \in {"left", "right"}
            THEN <<slide.kv[i][1], LocalizedSide(slide.kv[i][2])>>
            ELSE slide.kv[i]])

\* The document d with each media field pointing at its local media path
\* and every other field as it was.
Localized(d) ==
    Obj([i \in 1..Len(d.kv) |->
            CASE d.kv[i][1] \in {"logo", "background_image"} /\ IsUrl(d.kv[i][2]) ->
                   <<d.kv[i][1], LocalOf(d.kv[i][2].v)>>
              [] d.kv[i][1] = "slides" ->
                   <<"slides", Arr([j \in 1..Len(d.kv[i][2].items) |->
                                       LocalizedSlide(d.kv[i][2].items[j])])>>
              [] OTHER -> d.kv[i]])

SideSource(conf) ==
    { conf.kv[j][2] : j \in { n \in 1..Len(conf.kv) : conf.kv[n][1] = "source" } }

\* The media fields of a slide, as a set of <<side, value>>.
SlideRefs(slide) ==
    UNION { IF slide.kv[i][1] \in {"left", "right"} /\ IsMediaType(slide.kv[i][2])
            THEN { <<slide.kv[i][1], v>> : v \in SideSource(slide.kv[i][2]) }
            ELSE {}
          : i \in 1..Len(slide.kv) }

\* The media fields of a document, as a set of <<place, value>>.
FieldRefs(d) ==
    UNION { CASE d.kv[i][1] \in {"logo", "background_image"} ->
                   { << <<d.kv[i][1]>>, d.kv[i][2] >> }
              [] d.kv[i][1] = "slides" ->
                   UNION { { << <<"slides", j, r[1]>>, r[2] >> :
                               r \in SlideRefs(d.kv[i][2].items[j]) } :
                           j \in 1..Len(d.kv[i][2].items) }
              [] OTHER -> {}
          : i \in 1..Len(d.kv) }

\* The remote URLs a fetched document refers to.
MediaUrls(d) == { r[2].v : r \in { q \in FieldRefs(d) : IsUrl(q[2]) } }

Attempted(u) == \E i \in 1..Len(downloads) : downloads[i].url = u

RunEnded == pc \in Terminal

SyncDone == pc = "handoff" /\ branch = "changed"

(* ------------------------------- C1 ------------------------------------ *)

\* C1: a run whose fetch succeeded with a document whose hash differs from
\* the stored hash (or with no stored hash) takes the changed branch; when it
\* finishes, it returns the fetched document with every media field pointing
\* at its local media path and every other field unchanged, the cache
\* document is the returned document, and both cache files were written in
\* this run.
ChangedBranchLocalizes ==
    /\ ( /\ pc \in (InRun \cup Terminal) \ {"fetched"}
         /\ fetched # None
         /\ HashText(hash_config(fetched)) # startHash )
       => branch = "changed"
    /\ SyncDone =>
         /\ config = Localized(fetched)
         /\ cacheFile = DocFile(config)
         /\ writes = {"config", "hash"}
         /\ hashFile.k = "hash"

\* A sync over an existing entry that rewrote a logo and a video source.
ChangedBranchWitness ==
    /\ SyncDone
    /\ startHash.k = "hash"
    /\ Get(fetched, "logo") = Str(UrlA)
    /\ Get(config, "logo") = LocalOf(UrlA)
    /\ \E r \in FieldRefs(config) : r[1] = <<"slides", 1, "right">> /\ r[2] = LocalOf(UrlC)
    /\ Get(config, "display_name") = Get(fetched, "display_name")

(* ------------------------------- C2 ------------------------------------ *)

\* C2: a run whose fetch succeeded with a document whose hash equals the
\* stored hash ends by returning the document that was in the cache when it
\* started, with no cache file written, no download and the media directory
\* as it was; a cache file is written only in runs whose fetched hash differs
\* from the stored hash.
UnchangedBranchReturnsCache ==
    /\ ( /\ RunEnded
         /\ fetched # None
         /\ HashText(hash_config(fetched)) = startHash )
       => /\ pc = "handoff"
          /\ startCache.k = "doc"
          /\ config = startCache.doc
          /\ writes = {}
          /\ downloads = <<>>
          /\ cacheFile = startCache
          /\ hashFile = startHash
          /\ media = startMedia
    /\ writes # {} => /\ fetched # None
                      /\ HashText(hash_config(fetched)) # startHash

(* ------------------------------- C3 ------------------------------------ *)

\* C3: a run whose fetch failed while the cache held a document returns that
\* document, requests no media and writes nothing: cache document, hash file
\* and media directory are as they were; when the preceding run was such a
\* run too, the two returned documents are identical.
UnavailableReturnsCache ==
    ( /\ RunEnded
      /\ fetched = None
      /\ startCache.k = "doc" )
    => /\ pc = "handoff"
       /\ config = startCache.doc
       /\ downloads = <<>>
       /\ writes = {}
       /\ cacheFile = startCache
       /\ hashFile = startHash
       /\ media = startMedia
       /\ prevFallback # None => config = prevFallback

\* The second of two consecutive failed fetches served from the cache.
UnavailableTwiceWitness ==
    /\ pc = "handoff"
    /\ branch = "unavailable"
    /\ fetched = None
    /\ prevFallback # None
    /\ config = prevFallback
    /\ media # {}

(* ------------------------------- C4 ------------------------------------ *)

\* C4: a run whose fetch failed while no cache document exists ends in the
\* fatal exit, without a document and without reaching the hand-off.
FatalWithoutCache ==
    ( /\ pc \in (InRun \cup Terminal) \ {"fetched"}
      /\ fetched = None
      /\ startCache.k = "absent" )
    => /\ pc = "fatal"
       /\ config = None

\* The first run ever, with the server unreachable.
FatalWitness ==
    /\ pc = "fatal"
    /\ fetched = None
    /\ cacheFile = Absent
    /\ hashFile = Absent

(* ------------------------------- C5 ------------------------------------ *)

\* C5: every run ends at the hand-off or at the fatal exit, never with an
\* unhandled error, and the fatal exit is taken only when the fetch failed
\* and no cache document exists.
OnlyOneFatalCondition ==
    /\ pc # "error"
    /\ pc = "fatal" => (fetched = None /\ cacheFile.k = "absent")
    /\ pc = "handoff" => config # None

(* ------------------------------- C6 ------------------------------------ *)

\* C6: when a sync has written the cache, the stored hash is the hash of the
\* document as it was fetched, and a run that fetches the document of the
\* sync that wrote the current cache entry takes the unchanged branch.
ResyncTakesUnchangedBranch ==
    /\ SyncDone => hashFile = HashText(hash_config(fetched))
    /\ ( /\ branch \in {"changed", "unchanged"}
         /\ pc \in {"download", "handoff", "error"}
         /\ startHash.k = "hash"
         /\ startCache.k = "doc"
         /\ fetched = lastSynced )
       => branch = "unchanged"

(* ------------------------------- C7 ------------------------------------ *)

\* C7: what a run finds when it starts is a whole cache entry or none: the
\* cache document is never a truncated file, and the stored hash is the hash
\* of the stored document.
CacheEntryAtomic ==
    pc = "idle" =>
        \/ cacheFile = Absent /\ hashFile = Absent
        \/ /\ cacheFile.k = "doc"
           /\ hashFile = HashText(hash_config(cacheFile.doc))

(* ------------------------------- C8 ------------------------------------ *)

\* Every asset of the fetched document that was missing when the loop came
\* to it was requested: its file was there before the run, or it was
\* requested, or a request for another URL of the same filename had put the
\* file there.
EveryMissingAssetAttempted ==
    \A u \in MediaUrls(fetched) :
        \/ Exists(startMedia, u[Len(u)])
        \/ Attempted(u)
        \/ \E j \in 1..Len(downloads) :
              /\ downloads[j].ok
              /\ downloads[j].fname = u[Len(u)]
              /\ downloads[j].url # u

\* C8 as stated: after a sync, no file exists at the local path of any
\* asset whose download failed.
FailedDownloadLeavesNoFile ==
    SyncDone =>
        /\ config = Localized(fetched)
        /\ cacheFile = DocFile(config)
        /\ EveryMissingAssetAttempted
        /\ \A i \in 1..Len(downloads) :
              ~downloads[i].ok => ~Exists(media, downloads[i].fname)

\* C8 amended: a failed download does not stop the sync: every other missing
\* asset is still requested, the document is still rewritten, persisted and
\* returned, and no file exists at the local path of the failed asset unless
\* a later request of the same run, for another URL with the same filename,
\* succeeded.
FailedDownloadIsNotFatal ==
    SyncDone =>
        /\ config = Localized(fetched)
        /\ cacheFile = DocFile(config)
        /\ EveryMissingAssetAttempted
        /\ \A i \in 1..Len(downloads) :
              (~downloads[i].ok /\ Exists(media, downloads[i].fname)) =>
                  \E j \in (i + 1)..Len(downloads) :
                      /\ downloads[j].ok
                      /\ downloads[j].fname = downloads[i].fname
                      /\ downloads[j].url # downloads[i].url

\* A sync in which the logo download failed, a later download of another
\* asset succeeded, and the logo path has no file.
FailedDownloadWitness ==
    /\ SyncDone
    /\ Len(downloads) >= 2
    /\ downloads[1].url = UrlA
    /\ ~downloads[1].ok
    /\ downloads[2].ok
    /\ downloads[2].fname # downloads[1].fname
    /\ Get(config, "logo") = LocalOf(UrlA)
    /\ ~Exists(media, "a.png")

(* ------------------------------- C9 ------------------------------------ *)

\* C9: within one media resolution no URL is requested twice; once the
\* resolution is over, every referenced URL whose file was missing when the
\* loop came to it was requested exactly once, a successful request left its
\* file in the media directory, and every field that held the URL holds the
\* same local path.
DownloadDedup ==
    /\ \A i, j \in 1..Len(downloads) :
          downloads[i].url = downloads[j].url => i = j
    /\ SyncDone =>
          /\ EveryMissingAssetAttempted
          /\ \A i \in 1..Len(downloads) :
                /\ downloads[i].url \in MediaUrls(fetched)
                /\ downloads[i].ok => <<downloads[i].fname, downloads[i].url>> \in media
          /\ \A r \in FieldRefs(fetched) :
                IsUrl(r[2]) => <<r[1], LocalOf(r[2].v)>> \in FieldRefs(config)

\* The logo and a slide's left source are the same URL, nothing was cached,
\* and the URL was requested once, successfully.
DownloadDedupWitness ==
    /\ SyncDone
    /\ startMedia = {}
    /\ << <<"logo">>, Str(UrlA) >> \in FieldRefs(fetched)
    /\ << <<"slides", 1, "left">>, Str(UrlA) >> \in FieldRefs(fetched)
    /\ Cardinality({ i \in 1..Len(downloads) : downloads[i].url = UrlA }) = 1
    /\ <<"a.png", UrlA>> \in media
    /\ << <<"logo">>, LocalOf(UrlA) >> \in FieldRefs(config)
    /\ << <<"slides", 1, "left">>, LocalOf(UrlA) >> \in FieldRefs(config)

(* ------------------------------- C10 ----------------------------------- *)

\* C10: no step removes or replaces a file of the media directory, and a
\* request is made only for a filename that has no file at that moment.
MediaAppendOnly ==
    [][ /\ media \subseteq media'
        /\ downloads' # downloads /\ downloads' # <<>> =>
              ~Exists(media, downloads'[Len(downloads')].fname) ]_vars

\* After a config change the file of the previous document is still there,
\* and a URL whose filename was taken by another URL was not requested.
MediaAppendOnlyWitness ==
    /\ SyncDone
    /\ <<"b.mp4", UrlB>> \in media
    /\ UrlB \notin MediaUrls(fetched)
    /\ UrlC \in MediaUrls(fetched)
    /\ <<"a.png", UrlA>> \in startMedia
    /\ <<"a.png", UrlA>> \in media
    /\ ~Attempted(UrlC)

(* ------------------------------- C11 ----------------------------------- *)

\* C11: a run issues exactly one config request; when that request ends in a
\* transport error, a timeout, a non-2xx status or a malformed body, the
\* fetch hands None to main() instead of raising, main() goes on to the
\* unavailable branch, and the cache document, the hash file and the media
\* directory are what they were when the run started.
FetchNeverRaisesNorRetries ==
    /\ pc # "idle" => configRequests = 1
    /\ (pc # "idle" /\ response \in FailureKinds) =>
          /\ fetched = None
          /\ branch \in {"none", "unavailable"}
          /\ pc \in {"fetched", "handoff", "fatal", "error"}
          /\ pc \in Terminal => branch = "unavailable"
          /\ cacheFile = startCache
          /\ hashFile = startHash
          /\ media = startMedia
          /\ downloads = <<>>

\* A request answered by a body that is not JSON, with a cache entry and
\* media on disk: main() holds None and is about to fall back to the cache.
FetchMalformedWitness ==
    /\ pc = "fetched"
    /\ response = "malformed"
    /\ fetched = None
    /\ configRequests = 1
    /\ cacheFile.k = "doc"
    /\ hashFile.k = "hash"
    /\ media # {}

(* ------------------------------- C13 ----------------------------------- *)

\* C13: when a download failed in the sync that wrote the current cache
\* entry and a later run fetches the document of that sync again, the stored
\* hash is the hash of the rewritten document that was persisted and so
\* differs from the fetched hash, the run takes the changed branch, and once
\* its download loop is over every referenced media file that was missing
\* when the run started has been requested.
FailedDownloadRetried ==
    (pc \notin {"idle", "fetched"} /\ retryOf # {}) =>
        /\ retryOf \subseteq MediaUrls(fetched)
        /\ startCache = DocFile(Localized(fetched))
        /\ startHash = HashText(hash_config(startCache.doc))
        /\ HashText(hash_config(fetched)) # startHash
        /\ branch = "changed"
        /\ pc \in Persisting \cup {"handoff"} =>
              \A u \in MediaUrls(fetched) :
                  ~Exists(startMedia, u[Len(u)]) =>
                      \E i \in 1..Len(downloads) : downloads[i].fname = u[Len(u)]

\* The same document fetched again after its background download had
\* failed: the file was still missing and this run's request for it succeeded.
FailedDownloadRetriedWitness ==
    /\ SyncDone
    /\ UrlB \in retryOf
    /\ ~Exists(startMedia, "b.mp4")
    /\ \E i \in 1..Len(downloads) : downloads[i].url = UrlB /\ downloads[i].ok
    /\ <<"b.mp4", UrlB>> \in media

(* ------------------------------- C12 ----------------------------------- *)

\* C12: two documents that differ only in the order of their keys, at the
\* top level, inside a slide or inside a side of a slide, have the same
\* hash_config.
HashIgnoresKeyOrder ==
    hashA # None => hashA = hashB

\* Hashed documents whose top-level keys and whose slide keys are in
\* different orders.
HashIgnoresKeyOrderWitness ==
    /\ hashA # None
    /\ hashA = hashB
    /\ docB.kv[1][1] # docA.kv[1][1]
    /\ HasKey(docA, "slides")
    /\ Get(docB, "slides") # Get(docA, "slides")

====
